---- MODULE Spec2Model ----
(***************************************************************************)
(* Seedling imager: the carousel motion controller (motor_control.py), the *)
(* experiment cycle orchestrator (experiment_runner.py) and the control    *)
(* surface that starts and stops them (gui.py).                            *)
(*                                                                         *)
(* Every thread of the program is a thread id t with a three-level call    *)
(* stack: goto_plate (gt[t]) calls advance/home (mc[t]) calls step_motor   *)
(* (sm[t]).  SpecMotor drives the motor_control API from one sequential    *)
(* caller; Spec is the GUI with its worker threads.                        *)
(***************************************************************************)
EXTENDS Integers, Sequences, FiniteSets, TLC

(***************************************************************************)
(* Bounds.  The step counts of the source are scaled down: the properties  *)
(* are about where in a burst something happens, not about its length.     *)
(***************************************************************************)
\* motor_control.py:13 steps_per_60_deg = 800, scaled
steps_per_60_deg == 2
\* motor_control.py:68 step_motor(10, ...), the coarse-seek burst, scaled
HomeBurstSteps == 2
\* motor_control.py:99 steps_after_hall > 2000, scaled
HomeOpticalLimit == 2
\* motor_control.py:149 extra_steps > 500, scaled
DriftLimit == 2
\* the largest step count the sequential caller passes to step_motor
MaxSteps == 3

\* motor_control.py:130 (current_plate % 6) + 1; the carousel has six slots
NumPlates == 6

Value == {"ACTIVE", "INACTIVE"}

\* the most worker threads (HomingWorker, MotorWorker) alive at once
MaxWorkers == 1
\* the most cycles of one run (the run's duration elapses by then)
MaxCycles == 2
\* experiment_runner.py:30 wait_seconds_for_camera = 10, in sleeps of 0.1 s, scaled
SettleTicks == 2
\* experiment_runner.py:217 frequency_minutes * 60, in sleeps of 0.1 s, scaled
CadenceTicks == 1

\* the most set_led() calls the LED lines' sequential caller makes in a row
MaxLedCalls == 3

\* experiment_setup.py:12-13
ILLUM_GREEN == "Green"
ILLUM_IR == "Infrared"

Caller == <<"caller", 0>>
Runner == <<"runner", 0>>
Worker(k) == <<"worker", k>>
Workers == {Worker(k) : k \in 1..MaxWorkers}

Threads == {Caller, Runner} \cup Workers

VARIABLES
    en_line,        \* EN_PIN: INACTIVE (low) = driver enabled
    dir_line,       \* DIR_PIN
    step_line,      \* STEP_PIN
    current_plate,  \* motor_control.current_plate
    sm,             \* per thread: the step_motor frame
    mc,             \* per thread: the home / advance frame
    gt,             \* per thread: the goto_plate frame
    abort,          \* per thread: what its should_abort callable returns now
    cpc,            \* the sequential caller's position
    hist,           \* history: homed (a home() has succeeded), estop (an
                    \* emergency stop since the last successful home()), cut
                    \* (an emergency stop since the last driver_enable())
    led,            \* LED_GREEN_PIN, LED_IR_PIN: TRUE = ACTIVE
    camera_on,      \* the Picamera2 pipeline is started
    gui,            \* SeedlingImagerGUI's fields
    btn,            \* which buttons are enabled
    wpc,            \* per thread: position in its QThread.run (or "none")
    wkind,          \* per worker thread: "homing", "advance" or "none"
    run,            \* the ExperimentRunner's fields
    expired,        \* datetime.now() >= end_time
    led_probe,      \* the set_led() calls of the LED lines' sequential caller
    csv_opens       \* open(self.csv_path, "w") would succeed now

appvars == <<led, camera_on, gui, btn, wpc, wkind, run, expired>>

vars == <<en_line, dir_line, step_line, current_plate, sm, mc, gt, abort, cpc,
          hist, appvars, led_probe, csv_opens>>

(***************************************************************************)
(* step_motor                                                              *)
(***************************************************************************)
\* pulses and saw are history: the pulses this call has asserted, and whether
\* the abort flag of the calling thread was set at a loop head of this call
SmOff == [pc |-> "off", steps |-> 0, i |-> 0, abortable |-> FALSE,
          ok |-> TRUE, pulses |-> 0, saw |-> FALSE]

\* the frame of a fresh call step_motor(steps, should_abort=...)
SmCall(steps, abortable) ==
    [pc |-> "poll", steps |-> steps, i |-> 0, abortable |-> abortable,
     ok |-> TRUE, pulses |-> 0, saw |-> FALSE]

\* a burst that stops one pulse early
RangeDoneShort(i, steps) == i >= steps - 1

\* for _ in range(steps): the loop is exhausted
RangeDone(i, steps) == i >= steps

\* callable(should_abort) and should_abort(), with the poll forgotten
AbortPollNever(t) == FALSE

\* callable(should_abort) and should_abort()
AbortPoll(t) == sm[t].abortable /\ abort[t]

\* loop head and abort poll of one iteration
StepPoll(t) ==
    /\ sm[t].pc = "poll"
    /\ sm' = [sm EXCEPT ![t] =
                IF RangeDone(sm[t].i, sm[t].steps)
                THEN [@ EXCEPT !.pc = "ret", !.ok = TRUE]
                ELSE IF AbortPoll(t)
                     THEN [@ EXCEPT !.pc = "ret", !.ok = FALSE, !.saw = abort[t]]
                     ELSE [@ EXCEPT !.pc = "high", !.saw = @ \/ abort[t]]]
    /\ UNCHANGED <<en_line, dir_line, step_line, current_plate, mc, gt, abort, cpc, led_probe, csv_opens, hist, appvars>>

\* request.set_value(STEP_PIN, Value.ACTIVE); time.sleep(delay)
StepAssert(t) ==
    /\ sm[t].pc = "high"
    /\ step_line' = "ACTIVE"
    /\ sm' = [sm EXCEPT ![t].pc = "low", ![t].pulses = @ + 1]
    /\ UNCHANGED <<en_line, dir_line, current_plate, mc, gt, abort, cpc, led_probe, csv_opens, hist, appvars>>

\* request.set_value(STEP_PIN, Value.INACTIVE); time.sleep(delay)
StepDeassert(t) ==
    /\ sm[t].pc = "low"
    /\ step_line' = "INACTIVE"
    /\ sm' = [sm EXCEPT ![t].pc = "poll", ![t].i = @ + 1]
    /\ UNCHANGED <<en_line, dir_line, current_plate, mc, gt, abort, cpc, led_probe, csv_opens, hist, appvars>>

(***************************************************************************)
(* home                                                                    *)
(***************************************************************************)
\* result 0 stands for None.  History of an advance: entry is current_plate at
\* the call, burst_ok and burst_pulses the result of its 60-degree burst and the
\* pulses it asserted, landed the slot the increment gave, drift whether the
\* drift-correction block was entered.  The history of a call is kept for the
\* sequential caller, whose calls the properties of home(), advance() and
\* goto_plate() are stated about; the other threads' frames carry the default
\* v0.  History of a home: entry as above, why it returned None ("timeout",
\* "abort", else "none"), and flagged: should_abort was given and its flag was
\* set at some step of the coarse or fine seek.  seek_pulses is history of
\* both: the pulses asserted by the single-step seek for the optical index
\* (the fine seek of home(), the drift correction of advance()).
Kept(t, v, v0) == IF t = Caller THEN v ELSE v0

McOff == [pc |-> "off", op |-> "none", abortable |-> FALSE, result |-> 0,
          steps_after_hall |-> 0, extra_steps |-> 0, entry |-> 0,
          burst_ok |-> TRUE, burst_pulses |-> 0, landed |-> 0, drift |-> FALSE,
          why |-> "none", flagged |-> FALSE, seek_pulses |-> 0]

HomeCall(abortable) ==
    [McOff EXCEPT !.pc = "h_coarse", !.op = "home", !.abortable = abortable]

McReturn(t, result) == [mc[t] EXCEPT !.pc = "ret", !.result = result]

\* callable(should_abort) and should_abort(), as home() evaluates it
HomeAbortPoll(t) == mc[t].abortable /\ abort[t]

\* the history flagged after a step of the seek taken now
Flagged(t) == Kept(t, mc[t].flagged \/ (mc[t].abortable /\ (abort[t] \/ sm[t].saw)),
                   FALSE)

\* return None, for the reason why
HomeNone(t, why) ==
    [McReturn(t, 0) EXCEPT !.why = Kept(t, why, "none"), !.flagged = Flagged(t)]

\* a timeout that is reported as a position
HomeTimeoutAsHomed(t) == [HomeNone(t, "timeout") EXCEPT !.result = 1]

\* if time.time() - start_time > timeout: return None
HomeTimeout(t) == HomeNone(t, "timeout")

\* a step cap that lets the seek go on
OpticalCapNever(n) == FALSE

\* if steps_after_hall > 2000: break
OpticalCapExceeded(n) == n > HomeOpticalLimit

\* while request.get_value(SWITCH_PIN) == Value.ACTIVE: step_motor(10, ...)
HomeCoarseTest(t) ==
    /\ mc[t].pc = "h_coarse"
    /\ sm[t].pc = "off"
    /\ \E switch \in Value :
         IF switch = "ACTIVE"
         THEN /\ sm' = [sm EXCEPT ![t] = SmCall(HomeBurstSteps, mc[t].abortable)]
              /\ mc' = [mc EXCEPT ![t].pc = "h_coarse_burst",
                                  ![t].flagged = Flagged(t)]
         ELSE /\ mc' = [mc EXCEPT ![t].pc = "h_fine", ![t].steps_after_hall = 0,
                                  ![t].flagged = Flagged(t)]
              /\ sm' = sm
    /\ UNCHANGED <<en_line, dir_line, step_line, current_plate, gt, abort, cpc, led_probe, csv_opens, hist, appvars>>

\* a coarse seek with no wall-clock timeout
TimeoutNever == {FALSE}

\* time.time() - start_time > timeout, as it may evaluate after a burst
TimeoutOutcomes == BOOLEAN

\* the rest of one coarse iteration: burst result, timeout, abort
HomeCoarseAfter(t) ==
    /\ mc[t].pc = "h_coarse_burst"
    /\ sm[t].pc = "ret"
    /\ sm' = [sm EXCEPT ![t] = SmOff]
    /\ \E timed_out \in TimeoutOutcomes :
         mc' = [mc EXCEPT ![t] =
                  IF ~sm[t].ok THEN HomeNone(t, "abort")
                  ELSE IF timed_out THEN HomeTimeout(t)
                  ELSE IF HomeAbortPoll(t) THEN HomeNone(t, "abort")
                  ELSE [@ EXCEPT !.pc = "h_coarse", !.flagged = Flagged(t)]]
    /\ UNCHANGED <<en_line, dir_line, step_line, current_plate, gt, abort, cpc, led_probe, csv_opens, hist, appvars>>

\* while request.get_value(OPTICAL_PIN) == Value.ACTIVE: step_motor(1, ...)
HomeFineTest(t) ==
    /\ mc[t].pc = "h_fine"
    /\ sm[t].pc = "off"
    /\ \E optical \in Value :
         IF optical = "ACTIVE"
         THEN /\ sm' = [sm EXCEPT ![t] = SmCall(1, mc[t].abortable)]
              /\ mc' = [mc EXCEPT ![t].pc = "h_fine_step",
                                  ![t].flagged = Flagged(t)]
         ELSE /\ mc' = [mc EXCEPT ![t].pc = "h_done", ![t].flagged = Flagged(t)]
              /\ sm' = sm
    /\ UNCHANGED <<en_line, dir_line, step_line, current_plate, gt, abort, cpc, led_probe, csv_opens, hist, appvars>>

\* the rest of one fine iteration: step result, step cap, abort
HomeFineAfter(t) ==
    /\ mc[t].pc = "h_fine_step"
    /\ sm[t].pc = "ret"
    /\ sm' = [sm EXCEPT ![t] = SmOff]
    /\ mc' = [mc EXCEPT ![t] =
                [(IF ~sm[t].ok THEN HomeNone(t, "abort")
                  ELSE IF OpticalCapExceeded(mc[t].steps_after_hall + 1)
                       THEN [@ EXCEPT !.pc = "h_done", !.steps_after_hall = @ + 1,
                                      !.flagged = Flagged(t)]
                  ELSE IF HomeAbortPoll(t)
                       THEN [HomeNone(t, "abort") EXCEPT !.steps_after_hall = @ + 1]
                  ELSE [@ EXCEPT !.pc = "h_fine", !.steps_after_hall = @ + 1,
                                 !.flagged = Flagged(t)])
                 EXCEPT !.seek_pulses = Kept(t, @ + sm[t].pulses, 0)]]
    /\ UNCHANGED <<en_line, dir_line, step_line, current_plate, gt, abort, cpc, led_probe, csv_opens, hist, appvars>>

\* current_plate = 1; return current_plate
HomeDone(t) ==
    /\ mc[t].pc = "h_done"
    /\ current_plate' = 1
    /\ mc' = [mc EXCEPT ![t] = McReturn(t, 1)]
    /\ hist' = [hist EXCEPT !.homed = TRUE, !.estop = FALSE]
    /\ UNCHANGED <<en_line, dir_line, step_line, sm, gt, abort, cpc, led_probe, csv_opens, appvars>>

(***************************************************************************)
(* advance                                                                 *)
(***************************************************************************)
\* a successor that forgets to wrap
NextPlateNoWrap(p) == p + 1

\* (current_plate % 6) + 1
NextPlate(p) == (p % NumPlates) + 1

\* drift correction on every slot
DriftDueAlways(p) == TRUE

\* if current_plate == 1: (drift correction when returning to Plate #1)
DriftDue(p) == p = 1

\* the frame of a fresh call advance(): step_motor(steps_per_60_deg)
AdvanceCall(t) == [McOff EXCEPT !.pc = "a_burst", !.op = "advance",
                                !.entry = Kept(t, current_plate, 0)]

\* the burst's result, current_plate = (current_plate % 6) + 1, the drift test
AdvanceCommit(t) ==
    /\ mc[t].pc = "a_burst"
    /\ sm[t].pc = "ret"
    /\ sm' = [sm EXCEPT ![t] = SmOff]
    /\ IF ~sm[t].ok
       THEN /\ current_plate' = current_plate
            /\ mc' = [mc EXCEPT ![t] =
                        [McReturn(t, current_plate) EXCEPT
                           !.burst_ok = FALSE,
                           !.burst_pulses = Kept(t, sm[t].pulses, 0)]]
       ELSE /\ current_plate' = NextPlate(current_plate)
            /\ mc' = [mc EXCEPT ![t] =
                        IF DriftDue(current_plate')
                        THEN [@ EXCEPT !.pc = "a_drift", !.extra_steps = 0,
                                       !.drift = Kept(t, TRUE, FALSE),
                                       !.landed = Kept(t, current_plate', 0),
                                       !.burst_pulses = Kept(t, sm[t].pulses, 0)]
                        ELSE [McReturn(t, current_plate') EXCEPT
                                !.landed = Kept(t, current_plate', 0),
                                !.burst_pulses = Kept(t, sm[t].pulses, 0)]]
    /\ UNCHANGED <<en_line, dir_line, step_line, gt, abort, cpc, led_probe, csv_opens, hist, appvars>>

\* while request.get_value(OPTICAL_PIN) == Value.ACTIVE: step_motor(1, ...)
AdvanceDriftTest(t) ==
    /\ mc[t].pc = "a_drift"
    /\ sm[t].pc = "off"
    /\ \E optical \in Value :
         IF optical = "ACTIVE"
         THEN /\ sm' = [sm EXCEPT ![t] = SmCall(1, FALSE)]
              /\ mc' = [mc EXCEPT ![t].pc = "a_drift_step"]
         ELSE /\ mc' = [mc EXCEPT ![t].pc = "a_drift_end"]
              /\ sm' = sm
    /\ UNCHANGED <<en_line, dir_line, step_line, current_plate, gt, abort, cpc, led_probe, csv_opens, hist, appvars>>

\* the rest of one drift iteration: step result, safety limit
AdvanceDriftAfter(t) ==
    /\ mc[t].pc = "a_drift_step"
    /\ sm[t].pc = "ret"
    /\ sm' = [sm EXCEPT ![t] = SmOff]
    /\ mc' = [mc EXCEPT ![t] =
                [(IF ~sm[t].ok THEN [@ EXCEPT !.pc = "a_drift_end"]
                  ELSE IF mc[t].extra_steps + 1 > DriftLimit
                       THEN [@ EXCEPT !.pc = "a_drift_end", !.extra_steps = @ + 1]
                  ELSE [@ EXCEPT !.pc = "a_drift", !.extra_steps = @ + 1])
                 EXCEPT !.seek_pulses = Kept(t, @ + sm[t].pulses, 0)]]
    /\ UNCHANGED <<en_line, dir_line, step_line, current_plate, gt, abort, cpc, led_probe, csv_opens, hist, appvars>>

\* current_plate = 1 (reset plate count after correction); return current_plate
AdvanceDriftEnd(t) ==
    /\ mc[t].pc = "a_drift_end"
    /\ current_plate' = 1
    /\ mc' = [mc EXCEPT ![t] = McReturn(t, 1)]
    /\ UNCHANGED <<en_line, dir_line, step_line, sm, gt, abort, cpc, led_probe, csv_opens, hist, appvars>>

(***************************************************************************)
(* goto_plate                                                              *)
(***************************************************************************)
\* entry and advances are history: current_plate at the call, and the advance
\* calls made
GtOff == [pc |-> "off", target |-> 0, max_steps |-> 0, result |-> 0,
          entry |-> 0, advances |-> 0]

\* a revolution budget that is one advance short
GotoMaxStepsShort == NumPlates - 2

\* max_steps = 6
GotoMaxSteps == 6

\* a range test with the upper bound forgotten
InvalidTargetLow(target) == target < 1

\* if target_plate < 1 or target_plate > 6
InvalidTarget(target) == target < 1 \/ target > 6

\* target_plate < 1 or target_plate > 6 returns at once; else max_steps = 6
GotoCall(t, target) ==
    IF InvalidTarget(target)
    THEN [GtOff EXCEPT !.pc = "ret", !.target = target, !.result = current_plate,
                       !.entry = Kept(t, current_plate, 0)]
    ELSE [GtOff EXCEPT !.pc = "loop", !.target = target,
                       !.max_steps = GotoMaxSteps,
                       !.entry = Kept(t, current_plate, 0)]

\* while current_plate != target_plate and max_steps > 0: advance(...)
GotoLoop(t) ==
    /\ gt[t].pc = "loop"
    /\ mc[t].pc = "off"
    /\ IF current_plate # gt[t].target /\ gt[t].max_steps > 0
       THEN /\ mc' = [mc EXCEPT ![t] = AdvanceCall(t)]
            /\ sm' = [sm EXCEPT ![t] = SmCall(steps_per_60_deg, FALSE)]
            /\ gt' = [gt EXCEPT ![t].pc = "adv",
                                 ![t].advances = Kept(t, @ + 1, 0)]
       ELSE /\ gt' = [gt EXCEPT ![t].pc = "ret", ![t].result = current_plate]
            /\ UNCHANGED <<mc, sm>>
    /\ UNCHANGED <<en_line, dir_line, step_line, current_plate, abort, cpc, led_probe, csv_opens, hist, appvars>>

\* max_steps -= 1
GotoAdvanced(t) ==
    /\ gt[t].pc = "adv"
    /\ mc[t].pc = "ret"
    /\ mc' = [mc EXCEPT ![t] = McOff]
    /\ gt' = [gt EXCEPT ![t].pc = "loop", ![t].max_steps = @ - 1]
    /\ UNCHANGED <<en_line, dir_line, step_line, current_plate, sm, abort, cpc, led_probe, csv_opens, hist, appvars>>

\* the steps of motor_control code a thread takes, whoever called
MotorStep(t) ==
    \/ StepPoll(t)
    \/ StepAssert(t)
    \/ StepDeassert(t)
    \/ HomeCoarseTest(t)
    \/ HomeCoarseAfter(t)
    \/ HomeFineTest(t)
    \/ HomeFineAfter(t)
    \/ HomeDone(t)
    \/ AdvanceCommit(t)
    \/ AdvanceDriftTest(t)
    \/ AdvanceDriftAfter(t)
    \/ AdvanceDriftEnd(t)
    \/ GotoLoop(t)
    \/ GotoAdvanced(t)

(***************************************************************************)
(* The sequential caller of SpecMotor: one thread that calls the           *)
(* motor_control functions one after the other, with any arguments.        *)
(***************************************************************************)
\* request.set_value(EN_PIN, Value.INACTIVE)
driver_enable ==
    /\ en_line' = "INACTIVE"
    /\ hist' = [hist EXCEPT !.cut = FALSE]

\* a disable that leaves the line as it is
driver_disable_forgotten == en_line' = en_line

\* request.set_value(EN_PIN, Value.ACTIVE)
driver_disable == en_line' = "ACTIVE"

CallerDriverEnable ==
    /\ cpc = "idle"
    /\ driver_enable
    /\ UNCHANGED <<dir_line, step_line, current_plate, sm, mc, gt, abort, cpc, led_probe, csv_opens, appvars>>

CallerDriverDisable ==
    /\ cpc = "idle"
    /\ driver_disable
    /\ UNCHANGED <<dir_line, step_line, current_plate, sm, mc, gt, abort, cpc, led_probe, csv_opens, hist, appvars>>

CallerStepMotor ==
    /\ cpc = "idle"
    /\ \E steps \in 0..MaxSteps, abortable \in BOOLEAN :
         sm' = [sm EXCEPT ![Caller] = SmCall(steps, abortable)]
    /\ cpc' = "step_motor"
    /\ UNCHANGED <<led_probe, csv_opens, en_line, dir_line, step_line, current_plate, mc, gt, abort, hist, appvars>>

CallerHome ==
    /\ cpc = "idle"
    /\ \E abortable \in BOOLEAN :
         mc' = [mc EXCEPT ![Caller] =
                  [HomeCall(abortable) EXCEPT !.entry = current_plate]]
    /\ cpc' = "home"
    /\ UNCHANGED <<led_probe, csv_opens, en_line, dir_line, step_line, current_plate, sm, gt, abort, hist, appvars>>

CallerAdvance ==
    /\ cpc = "idle"
    /\ mc' = [mc EXCEPT ![Caller] = AdvanceCall(Caller)]
    /\ sm' = [sm EXCEPT ![Caller] = SmCall(steps_per_60_deg, FALSE)]
    /\ cpc' = "advance"
    /\ UNCHANGED <<led_probe, csv_opens, en_line, dir_line, step_line, current_plate, gt, abort, hist, appvars>>

CallerGoto ==
    /\ cpc = "idle"
    /\ \E target \in 0..(NumPlates + 1) :
         gt' = [gt EXCEPT ![Caller] = GotoCall(Caller, target)]
    /\ cpc' = "goto_plate"
    /\ UNCHANGED <<led_probe, csv_opens, en_line, dir_line, step_line, current_plate, sm, mc, abort, hist, appvars>>

\* the called function has returned; the caller drops its frame
CallerReturn ==
    /\ \/ cpc = "step_motor" /\ sm[Caller].pc = "ret"
       \/ cpc \in {"home", "advance"} /\ mc[Caller].pc = "ret"
       \/ cpc = "goto_plate" /\ gt[Caller].pc = "ret"
    /\ cpc' = "idle"
    /\ sm' = [sm EXCEPT ![Caller] = SmOff]
    /\ mc' = [mc EXCEPT ![Caller] = McOff]
    /\ gt' = [gt EXCEPT ![Caller] = GtOff]
    /\ UNCHANGED <<led_probe, csv_opens, en_line, dir_line, step_line, current_plate, abort, hist, appvars>>

\* the caller's should_abort callable changes its answer
CallerAbortChanges ==
    /\ abort' = [abort EXCEPT ![Caller] = ~@]
    /\ UNCHANGED <<en_line, dir_line, step_line, current_plate, sm, mc, gt, cpc, led_probe, csv_opens, hist, appvars>>

(***************************************************************************)
(* Illumination and the control surface (gui.py)                           *)
(***************************************************************************)
LedOff == [green |-> FALSE, ir |-> FALSE]

\* a set_led whose off flips the line of its mode
set_led_flips(on, mode) ==
    IF mode = ILLUM_GREEN
    THEN [green |-> IF on THEN TRUE ELSE ~led.green, ir |-> FALSE]
    ELSE [green |-> FALSE, ir |-> IF on THEN TRUE ELSE ~led.ir]

\* set_led(on, mode).  led_request is taken to be present: with the LED lines
\* missing every call is a no-op and there is no illumination to speak of.
set_led(on, mode) ==
    IF mode = ILLUM_GREEN
    THEN [green |-> on, ir |-> FALSE]
    ELSE [green |-> FALSE, ir |-> on]

\* the mode's line set active with the other line left as it is
LiveLedAdds(mode) ==
    IF mode = ILLUM_GREEN
    THEN [green |-> TRUE, ir |-> led.ir]
    ELSE [green |-> led.green, ir |-> TRUE]

\* the LED lines toggle_live_view and toggle_illumination_mode write for a mode
LiveLed(mode) ==
    IF mode = ILLUM_GREEN
    THEN [green |-> TRUE, ir |-> FALSE]
    ELSE [green |-> FALSE, ir |-> TRUE]

\* controls that leave the Start button enabled during a run
ControlsKeepStart(b, running) ==
    [b EXCEPT !.live = ~running, !.home = ~running, !.advance = ~running,
              !.illum = ~running, !.end = running]

\* update_controls_for_experiment(running)
ControlsForExperiment(b, running) ==
    [b EXCEPT !.live = ~running, !.home = ~running, !.advance = ~running,
              !.experiment = ~running, !.illum = ~running, !.end = running]

\* QThread.isRunning()
IsRunning(t) == wpc[t] # "none"

\* a thread slot no live worker holds
FreeWorker(w) == wpc[w] = "none"

\* gui.homing_worker: 0 is None, k > 0 the running Worker(k)
HomingWorkerRunning == gui.homing_worker > 0

\* start_homing(), the new HomingWorker taking thread slot Worker(k); its run()
\* enters motor_control.home(should_abort=self._should_abort)
start_homing(k) ==
    /\ driver_enable
    /\ btn' = [btn EXCEPT !.advance = FALSE, !.experiment = FALSE, !.illum = FALSE]
    /\ gui' = [gui EXCEPT !.homing_worker = k]
    /\ wkind' = [wkind EXCEPT ![Worker(k)] = "homing"]
    /\ wpc' = [wpc EXCEPT ![Worker(k)] = "hw_run"]
    /\ abort' = [abort EXCEPT ![Worker(k)] = FALSE]
    /\ mc' = [mc EXCEPT ![Worker(k)] = HomeCall(TRUE)]

\* the stop request, made to flip the flag it finds
request_stop_flips(flag) == ~flag

\* HomingWorker.request_stop(): self._abort = True
request_stop(flag) == TRUE

\* stop_homing(): driver_disable(), then request_stop() on a running worker
stop_homing ==
    /\ driver_disable
    /\ abort' = IF HomingWorkerRunning
                THEN [abort EXCEPT ![Worker(gui.homing_worker)] = request_stop(@)]
                ELSE abort
    /\ hist' = [hist EXCEPT !.estop = TRUE, !.cut = TRUE]
    /\ UNCHANGED <<btn, gui, wkind, wpc, mc>>

\* on_home_clicked(): start homing, or stop the homing in progress
OnHomeClicked ==
    /\ btn.home
    /\ ~gui.waiting
    /\ IF gui.homing_worker = 0 \/ ~HomingWorkerRunning
       THEN \E k \in 1..MaxWorkers :
              /\ FreeWorker(Worker(k))
              /\ \A j \in 1..(k - 1) : ~FreeWorker(Worker(j))
              /\ start_homing(k)
       ELSE stop_homing
    /\ UNCHANGED <<dir_line, step_line, current_plate, sm, gt, cpc, led_probe, csv_opens, led,
                   camera_on, run, expired>>

\* on_homing_finished(plate_or_none): the buttons it enables
on_homing_finished(b) ==
    [b EXCEPT !.advance = TRUE, !.experiment = TRUE, !.illum = TRUE]

\* HomingWorker.run() after home() returned: finished_with_result.emit(plate),
\* the thread ends, and the GUI thread runs on_homing_finished
HomingWorkerDone(k) ==
    /\ wkind[Worker(k)] = "homing"
    /\ mc[Worker(k)].pc = "ret"
    /\ ~gui.waiting
    /\ mc' = [mc EXCEPT ![Worker(k)] = McOff]
    /\ wpc' = [wpc EXCEPT ![Worker(k)] = "none"]
    /\ wkind' = [wkind EXCEPT ![Worker(k)] = "none"]
    /\ abort' = [abort EXCEPT ![Worker(k)] = FALSE]
    /\ btn' = on_homing_finished(btn)
    /\ gui' = [gui EXCEPT !.homing_worker = 0]
    /\ UNCHANGED <<en_line, dir_line, step_line, current_plate, sm, gt, cpc, led_probe, csv_opens, hist,
                   led, camera_on, run, expired>>

\* the Advance button: run_motor_action("advance") starts a MotorWorker
ClickAdvance ==
    /\ btn.advance
    /\ ~gui.waiting
    /\ \E k \in 1..MaxWorkers :
         /\ FreeWorker(Worker(k))
         /\ \A j \in 1..(k - 1) : ~FreeWorker(Worker(j))
         /\ wkind' = [wkind EXCEPT ![Worker(k)] = "advance"]
         /\ wpc' = [wpc EXCEPT ![Worker(k)] = "mw_run"]
    /\ UNCHANGED <<en_line, dir_line, step_line, current_plate, sm, mc, gt, abort,
                   cpc, led_probe, csv_opens, hist, led, camera_on, gui, btn, run, expired>>

\* MotorWorker.run(): motor_control.driver_enable(); motor_control.advance(...)
MotorWorkerRun(k) ==
    /\ wkind[Worker(k)] = "advance"
    /\ wpc[Worker(k)] = "mw_run"
    /\ driver_enable
    /\ mc' = [mc EXCEPT ![Worker(k)] = AdvanceCall(Worker(k))]
    /\ sm' = [sm EXCEPT ![Worker(k)] = SmCall(steps_per_60_deg, FALSE)]
    /\ wpc' = [wpc EXCEPT ![Worker(k)] = "mw_advancing"]
    /\ UNCHANGED <<dir_line, step_line, current_plate, gt, abort, cpc, led_probe, csv_opens, led,
                   camera_on, gui, btn, wkind, run, expired>>

\* MotorWorker.run() after advance() returned: the thread ends
MotorWorkerDone(k) ==
    /\ wkind[Worker(k)] = "advance"
    /\ wpc[Worker(k)] = "mw_advancing"
    /\ mc[Worker(k)].pc = "ret"
    /\ mc' = [mc EXCEPT ![Worker(k)] = McOff]
    /\ wpc' = [wpc EXCEPT ![Worker(k)] = "none"]
    /\ wkind' = [wkind EXCEPT ![Worker(k)] = "none"]
    /\ UNCHANGED <<en_line, dir_line, step_line, current_plate, sm, gt, abort, cpc, led_probe, csv_opens,
                   hist, led, camera_on, gui, btn, run, expired>>

\* toggle_live_view()
ToggleLiveView ==
    /\ btn.live
    /\ ~gui.waiting
    /\ IF ~gui.live_view_active
       THEN /\ camera_on' = TRUE
            /\ gui' = [gui EXCEPT !.live_view_active = TRUE]
            /\ led' = LiveLed(gui.active_illum_mode)
       ELSE /\ camera_on' = FALSE
            /\ gui' = [gui EXCEPT !.live_view_active = FALSE]
            /\ led' = LedOff
    /\ UNCHANGED <<en_line, dir_line, step_line, current_plate, sm, mc, gt, abort,
                   cpc, led_probe, csv_opens, hist, btn, wpc, wkind, run, expired>>

\* toggle_illumination_mode()
ToggleIlluminationMode ==
    /\ btn.illum
    /\ ~gui.waiting
    /\ gui' = [gui EXCEPT !.active_illum_mode =
                 IF @ = ILLUM_GREEN THEN ILLUM_IR ELSE ILLUM_GREEN]
    /\ led' = IF gui.live_view_active THEN LiveLed(gui'.active_illum_mode) ELSE led
    /\ UNCHANGED <<en_line, dir_line, step_line, current_plate, sm, mc, gt, abort,
                   cpc, led_probe, csv_opens, hist, camera_on, btn, wpc, wkind, run, expired>>

(***************************************************************************)
(* ExperimentRunner (experiment_runner.py) and its start / end in gui.py   *)
(***************************************************************************)
\* a plate name as the setup dialog's checkboxes give it: numeric says whether
\* int(name.split()[-1]) succeeds, value what it yields
PlateName(k) == [numeric |-> TRUE, value |-> k]

\* the plate selections a run is started with
PlateChoices == { <<>>, <<PlateName(2), PlateName(4)>>,
                  <<[numeric |-> FALSE, value |-> 0], PlateName(7)>> }

\* the durations (days) a run is started with
DayChoices == {0, 1}

\* _normalize_plates(plate_names)
NormalizePlates(names) ==
    { names[j].value : j \in { i \in DOMAIN names :
                                 /\ names[i].numeric
                                 /\ 1 <= names[i].value
                                 /\ names[i].value <= 6 } }

\* events is history: what the orchestrator has done for the current slot;
\* stopped and dark: finalization has stopped the camera / set the LEDs off;
\* cut is history: the "if self._abort: break" that ended the for loop;
\* saved is run()'s local of that name, the result of camera.save_image();
\* advances and shots are history of the cycle in hand: the number of run()'s
\* own advance() calls and the slots of its capture attempts, in order;
\* lit and cam_tried are history of the run: it has set the illumination on,
\* it has called camera.start_camera(); report is what the finally block logs;
\* plate is run()'s local of that name, the result of home() (0 for None);
\* had_fail is history of the run: a save_image() of it has returned False;
\* sweeps is history of the run: the sweeps that went through all six slots;
\* woke is history of the wait that has just returned: the short sleeps it
\* had left; csv is self.csv_writer is not None; rec and img are history of
\* the slot in hand: the CSV rows written and the image_saved_signal
\* emissions, each as <<cycle index, plate>>
RunOff == [selected |-> {}, mode |-> ILLUM_GREEN, days |-> 0, plate_idx |-> 0,
           cycle_count |-> 0, ticks |-> 0, events |-> <<>>,
           stopped |-> FALSE, dark |-> FALSE, cut |-> "none", saved |-> FALSE,
           advances |-> 0, shots |-> <<>>, lit |-> FALSE, cam_tried |-> FALSE,
           report |-> "none", plate |-> 0, had_fail |-> FALSE,
           sweeps |-> 0, woke |-> 0, csv |-> FALSE, rec |-> <<>>, img |-> <<>>]

\* ExperimentRunner.__init__
NewRun(plates, days, illum) ==
    [RunOff EXCEPT !.selected = NormalizePlates(plates), !.days = days,
                   !.mode = illum]

\* open_experiment_setup() accepted: start_experiment(plates, days, freq, illum)
StartExperiment ==
    /\ btn.experiment
    /\ ~gui.waiting
    /\ IF IsRunning(Runner)
       THEN UNCHANGED <<led, camera_on, gui, btn, wpc, run, abort>>
       ELSE /\ \E plates \in PlateChoices, days \in DayChoices,
                  illum \in {ILLUM_GREEN, ILLUM_IR} :
                 run' = NewRun(plates, days, illum)
            /\ IF gui.live_view_active
               THEN /\ camera_on' = FALSE
                    /\ led' = LedOff
                    /\ gui' = [gui EXCEPT !.live_view_active = FALSE]
               ELSE UNCHANGED <<camera_on, led, gui>>
            /\ btn' = ControlsForExperiment(btn, TRUE)
            /\ wpc' = [wpc EXCEPT ![Runner] = "r_start"]
            /\ abort' = [abort EXCEPT ![Runner] = FALSE]
    /\ UNCHANGED <<en_line, dir_line, step_line, current_plate, sm, mc, gt, cpc, led_probe, csv_opens,
                   hist, wkind, expired>>

\* end_experiment() up to experiment_thread.wait(): abort() the running thread
EndExperiment ==
    /\ btn.end
    /\ ~gui.waiting
    /\ IF IsRunning(Runner)
       THEN /\ abort' = [abort EXCEPT ![Runner] = TRUE]
            /\ gui' = [gui EXCEPT !.waiting = TRUE]
            /\ btn' = btn
       ELSE /\ btn' = ControlsForExperiment(btn, FALSE)
            /\ UNCHANGED <<abort, gui>>
    /\ UNCHANGED <<en_line, dir_line, step_line, current_plate, sm, mc, gt, cpc, led_probe, csv_opens,
                   hist, led, camera_on, wpc, wkind, run, expired>>

\* end_experiment() after wait() returned: update_controls_for_experiment(False)
EndExperimentWaited ==
    /\ gui.waiting
    /\ ~IsRunning(Runner)
    /\ gui' = [gui EXCEPT !.waiting = FALSE]
    /\ btn' = ControlsForExperiment(btn, FALSE)
    /\ UNCHANGED <<en_line, dir_line, step_line, current_plate, sm, mc, gt, abort,
                   cpc, led_probe, csv_opens, hist, led, camera_on, wpc, wkind, run, expired>>

\* what no step of run() itself changes
RunnerFrame == <<dir_line, step_line, cpc, led_probe, csv_opens, hist, gui, btn, wkind, abort>>

\* a run that goes on with nothing selected
NoPlatesNever(selected) == FALSE

\* if not self.selected_plates
NoPlates(selected) == selected = {}

\* run(): the empty-selection return, else driver_enable() and the call of home()
RunnerStart ==
    /\ wpc[Runner] = "r_start"
    /\ IF NoPlates(run.selected)
       THEN /\ wpc' = [wpc EXCEPT ![Runner] = "r_emit"]
            /\ UNCHANGED <<en_line, hist, mc>>
       ELSE /\ driver_enable
            /\ mc' = [mc EXCEPT ![Runner] = HomeCall(FALSE)]
            /\ wpc' = [wpc EXCEPT ![Runner] = "r_home"]
    /\ UNCHANGED <<current_plate, sm, gt, led, camera_on, run, expired, dir_line,
                   step_line, cpc, led_probe, csv_opens, gui, btn, wkind, abort>>

\* what follows home(), with its result not tested
AfterHomeUnchecked(plate) == "r_camera"

\* if plate is None: "Homing failed", finished_signal.emit(), return
AfterHome(plate) == IF plate = 0 THEN "r_emit" ELSE "r_camera"

\* plate = motor_control.home(...) returned
RunnerHomed ==
    /\ wpc[Runner] = "r_home"
    /\ mc[Runner].pc = "ret"
    /\ mc' = [mc EXCEPT ![Runner] = McOff]
    /\ run' = [run EXCEPT !.plate = mc[Runner].result]
    /\ wpc' = [wpc EXCEPT ![Runner] = AfterHome(mc[Runner].result)]
    /\ UNCHANGED <<en_line, current_plate, sm, gt, led, camera_on, expired,
                   RunnerFrame>>

\* the end time, with a plan of zero days taken as not yet over
EndTimePassedNever(days) == FALSE

\* end_time = datetime.now() + timedelta(days=duration_days): with zero days
\* the first datetime.now() < end_time is already false
EndTimePassed(days) == days = 0

\* a camera-start failure that returns without emitting finished_signal
AfterCameraErrorSilent == "none"

\* except Exception: "Camera start error", finished_signal.emit(), return
AfterCameraError == "r_emit"

\* camera.start_camera(); camera.apply_settings(self.cam_settings), which may
\* raise; then _open_csv(), which on an error logs it and leaves csv_writer
\* None, and end_time = now + duration_days
RunnerCameraStart ==
    /\ wpc[Runner] = "r_camera"
    /\ camera_on' = TRUE
    /\ \E raised \in BOOLEAN :
         IF raised
         THEN /\ wpc' = [wpc EXCEPT ![Runner] = AfterCameraError]
              /\ run' = [run EXCEPT !.cam_tried = TRUE]
              /\ expired' = expired
         ELSE /\ wpc' = [wpc EXCEPT ![Runner] = "r_while"]
              /\ run' = [run EXCEPT !.cam_tried = TRUE, !.csv = csv_opens]
              /\ expired' = EndTimePassed(run.days)
    /\ UNCHANGED <<en_line, current_plate, sm, mc, gt, led, RunnerFrame>>

\* the wall clock passes end_time
DurationElapses ==
    /\ wpc[Runner] \notin {"none", "r_start", "r_home", "r_camera", "r_emit"}
    /\ ~expired
    /\ expired' = TRUE
    /\ UNCHANGED <<en_line, dir_line, step_line, current_plate, sm, mc, gt, abort,
                   cpc, led_probe, csv_opens, hist, led, camera_on, gui, btn, wpc, wkind, run>>

\* a cycle entered without counting it
CycleCountSame(c) == c

\* self.cycle_count += 1
CycleCountNext(c) == c + 1

\* while datetime.now() < end_time and not self._abort: cycle_count += 1;
\* goto_plate(1)
RunnerWhile ==
    /\ wpc[Runner] = "r_while"
    /\ run.cycle_count < MaxCycles \/ expired \/ abort[Runner]
    /\ IF ~expired /\ ~abort[Runner]
       THEN /\ run' = [run EXCEPT !.cycle_count = CycleCountNext(@), !.advances = 0,
                                  !.shots = <<>>, !.woke = 0]
            /\ gt' = [gt EXCEPT ![Runner] = GotoCall(Runner, 1)]
            /\ wpc' = [wpc EXCEPT ![Runner] = "r_goto"]
       ELSE /\ wpc' = [wpc EXCEPT ![Runner] = "r_finally"]
            /\ run' = [run EXCEPT !.woke = 0]
            /\ gt' = gt
    /\ UNCHANGED <<en_line, current_plate, sm, mc, led, camera_on, expired,
                   RunnerFrame>>

\* goto_plate returned: plate_signal.emit(1); the for loop starts at plate_idx 1
RunnerGotoDone ==
    /\ wpc[Runner] = "r_goto"
    /\ gt[Runner].pc = "ret"
    /\ gt' = [gt EXCEPT ![Runner] = GtOff]
    /\ run' = [run EXCEPT !.plate_idx = 1, !.events = <<>>]
    /\ wpc' = [wpc EXCEPT ![Runner] = "r_slot"]
    /\ UNCHANGED <<en_line, current_plate, sm, mc, led, camera_on, expired,
                   RunnerFrame>>

\* a slot loop that also stops when the end time has passed
SlotBreakOnTime(aborted, timeup) == aborted \/ timeup

\* if self._abort: break
SlotBreak(aborted, timeup) == aborted

\* top of one slot: if self._abort: break; LED on; settling_started
RunnerSlot ==
    /\ wpc[Runner] = "r_slot"
    /\ IF SlotBreak(abort[Runner], expired)
       THEN /\ wpc' = [wpc EXCEPT ![Runner] = "r_post"]
            /\ run' = [run EXCEPT !.cut = "top"]
            /\ led' = led
       ELSE /\ led' = set_led(TRUE, run.mode)
            /\ run' = [run EXCEPT !.ticks = SettleTicks, !.events = <<"on">>,
                                  !.lit = TRUE, !.woke = 0]
            /\ wpc' = [wpc EXCEPT ![Runner] = "r_settle"]
    /\ UNCHANGED <<en_line, current_plate, sm, mc, gt, camera_on, expired,
                   RunnerFrame>>

\* a wait that sleeps its whole duration: time.sleep(seconds)
SleepWithoutAbort(next) ==
    IF run.ticks > 0
    THEN /\ run' = [run EXCEPT !.ticks = @ - 1]
         /\ wpc' = wpc
    ELSE /\ run' = [run EXCEPT !.events = IF next = "r_settled"
                                          THEN Append(@, "settle") ELSE @]
         /\ wpc' = [wpc EXCEPT ![Runner] = next]

\* _sleep_with_abort: while time.time() < end and not self._abort: sleep(0.1)
SleepWithAbort(next) ==
    IF run.ticks > 0 /\ ~abort[Runner]
    THEN /\ run' = [run EXCEPT !.ticks = @ - 1]
         /\ wpc' = wpc
    ELSE /\ run' = [run EXCEPT !.ticks = 0, !.woke = run.ticks,
                               !.events = IF next = "r_settled"
                                          THEN Append(@, "settle") ELSE @]
         /\ wpc' = [wpc EXCEPT ![Runner] = next]

\* self._sleep_with_abort(self.wait_seconds_for_camera)
RunnerSettle ==
    /\ wpc[Runner] = "r_settle"
    /\ SleepWithAbort("r_settled")
    /\ UNCHANGED <<en_line, current_plate, sm, mc, gt, led, camera_on, expired,
                   RunnerFrame>>

\* settling_finished; if self._abort: break
RunnerSettled ==
    /\ wpc[Runner] = "r_settled"
    /\ wpc' = [wpc EXCEPT ![Runner] = IF abort[Runner] THEN "r_post" ELSE "r_capture"]
    /\ run' = [run EXCEPT !.cut = IF abort[Runner] THEN "settle" ELSE @,
                          !.woke = 0]
    /\ UNCHANGED <<en_line, current_plate, sm, mc, gt, led, camera_on, expired,
                   RunnerFrame>>

\* the membership test, with every slot taken as selected
CapturesEverySlot(k) == TRUE

\* if plate_idx in self.selected_plates
InSelectedPlates(k) == k \in run.selected

\* what follows a capture attempt, with a failed capture taken as fatal
CaptureNextFatal(outcome) == IF outcome = "saved" THEN "r_ledoff" ELSE "r_finally"

\* what follows a capture attempt: "Capture failed" is logged and the slot goes
\* on; only an exception (the CSV write) leaves the loop for the finally block
CaptureNext(outcome) == IF outcome = "raised" THEN "r_finally" ELSE "r_ledoff"

\* if saved: ... if self.csv_writer: self.csv_writer.writerow([..., cycle_count,
\* plate_idx, ...]); a write that raises leaves no row
CsvRows(outcome) ==
    IF outcome = "saved" /\ run.csv
    THEN <<<<run.cycle_count, run.plate_idx>>>> ELSE <<>>

\* self.image_saved_signal.emit(img_path), after the CSV row
ImageSaved(outcome) ==
    IF outcome = "saved" THEN <<<<run.cycle_count, run.plate_idx>>>> ELSE <<>>

\* the outcomes of the capture block: save_image() returned True and the block
\* completed, save_image() returned False, or save_image() returned True and
\* the CSV write raised (there is a writer)
CaptureOutcomes == {"saved", "failed"} \cup (IF run.csv THEN {"raised"} ELSE {})

\* if plate_idx in self.selected_plates: saved = camera.save_image(...), which
\* returns False on failure, and on success the CSV row, whose write may raise;
\* else "skipped"
RunnerCapture ==
    /\ wpc[Runner] = "r_capture"
    /\ IF InSelectedPlates(run.plate_idx)
       THEN \E outcome \in CaptureOutcomes :
              /\ run' = [run EXCEPT !.events = Append(@, "capture"),
                                    !.shots = Append(@, run.plate_idx),
                                    !.saved = (outcome # "failed"),
                                    !.had_fail = @ \/ (outcome = "failed"),
                                    !.rec = CsvRows(outcome),
                                    !.img = ImageSaved(outcome)]
              /\ wpc' = [wpc EXCEPT ![Runner] = CaptureNext(outcome)]
       ELSE /\ run' = [run EXCEPT !.events = Append(@, "skip")]
            /\ wpc' = [wpc EXCEPT ![Runner] = "r_ledoff"]
    /\ UNCHANGED <<en_line, current_plate, sm, mc, gt, led, camera_on, expired,
                   RunnerFrame>>

\* the slot's LED OFF, with the call forgotten
RunnerLedOffForgotten ==
    /\ wpc[Runner] = "r_ledoff"
    /\ run' = [run EXCEPT !.events = Append(@, "off")]
    /\ wpc' = [wpc EXCEPT ![Runner] = "r_advance"]
    /\ UNCHANGED <<en_line, current_plate, sm, mc, gt, led, camera_on, expired,
                   RunnerFrame>>

\* self.led_control_fn(False, self.illumination_mode)
RunnerLedOff ==
    /\ wpc[Runner] = "r_ledoff"
    /\ led' = set_led(FALSE, run.mode)
    /\ run' = [run EXCEPT !.events = Append(@, "off")]
    /\ wpc' = [wpc EXCEPT ![Runner] = "r_advance"]
    /\ UNCHANGED <<en_line, current_plate, sm, mc, gt, camera_on, expired,
                   RunnerFrame>>

\* motor_control.advance(status_callback=...)
RunnerAdvance ==
    /\ wpc[Runner] = "r_advance"
    /\ mc' = [mc EXCEPT ![Runner] = AdvanceCall(Runner)]
    /\ sm' = [sm EXCEPT ![Runner] = SmCall(steps_per_60_deg, FALSE)]
    /\ run' = [run EXCEPT !.events = Append(@, "advance"), !.advances = @ + 1]
    /\ wpc' = [wpc EXCEPT ![Runner] = "r_advancing"]
    /\ UNCHANGED <<en_line, current_plate, gt, led, camera_on, expired,
                   RunnerFrame>>

\* advance returned: plate_signal.emit(...); the for loop takes its next value
RunnerAdvanced ==
    /\ wpc[Runner] = "r_advancing"
    /\ mc[Runner].pc = "ret"
    /\ mc' = [mc EXCEPT ![Runner] = McOff]
    /\ IF run.plate_idx = 6
       THEN /\ wpc' = [wpc EXCEPT ![Runner] = "r_post"]
            /\ run' = [run EXCEPT !.sweeps = @ + 1]
       ELSE /\ wpc' = [wpc EXCEPT ![Runner] = "r_slot"]
            /\ run' = [run EXCEPT !.plate_idx = @ + 1, !.events = <<>>,
                                  !.saved = FALSE, !.rec = <<>>, !.img = <<>>]
    /\ UNCHANGED <<en_line, current_plate, sm, gt, led, camera_on, expired,
                   RunnerFrame>>

\* the post-cycle test, with the abort flag not looked at
CadenceDueAtSix(idx, aborted) == idx = 6

\* if plate_idx == 6 and not self._abort
CadenceDue(idx, aborted) == idx = 6 /\ ~aborted

\* if plate_idx == 6 and not self._abort: the cadence wait begins
RunnerPost ==
    /\ wpc[Runner] = "r_post"
    /\ IF CadenceDue(run.plate_idx, abort[Runner])
       THEN /\ run' = [run EXCEPT !.ticks = CadenceTicks, !.woke = 0]
            /\ wpc' = [wpc EXCEPT ![Runner] = "r_cadence"]
       ELSE /\ wpc' = [wpc EXCEPT ![Runner] = "r_while"]
            /\ run' = run
    /\ UNCHANGED <<en_line, current_plate, sm, mc, gt, led, camera_on, expired,
                   RunnerFrame>>

\* self._sleep_with_abort(self.frequency_minutes * 60)
RunnerCadence ==
    /\ wpc[Runner] = "r_cadence"
    /\ SleepWithAbort("r_while")
    /\ UNCHANGED <<en_line, current_plate, sm, mc, gt, led, camera_on, expired,
                   RunnerFrame>>

\* finally: camera.stop_camera(); led_control_fn(False, mode); _close_csv()
RunnerFinally ==
    /\ wpc[Runner] = "r_finally"
    /\ camera_on' = FALSE
    /\ led' = set_led(FALSE, run.mode)
    /\ run' = [run EXCEPT !.stopped = TRUE, !.dark = TRUE, !.events = <<>>,
                          !.report = IF abort[Runner] THEN "aborted" ELSE "finished"]
    /\ wpc' = [wpc EXCEPT ![Runner] = "r_emit"]
    /\ UNCHANGED <<en_line, current_plate, sm, mc, gt, expired, RunnerFrame>>

\* finished_signal.emit() and the end of the thread, after which the runner
\* object (its plan and its abort flag) is read by nobody; the GUI thread runs
\* on_experiment_finished, unless it is blocked in end_experiment's wait(),
\* which then does the same update itself
RunnerEmit ==
    /\ wpc[Runner] = "r_emit"
    /\ wpc' = [wpc EXCEPT ![Runner] = "none"]
    /\ run' = RunOff
    /\ expired' = FALSE
    /\ abort' = [abort EXCEPT ![Runner] = FALSE]
    /\ btn' = IF gui.waiting THEN btn ELSE ControlsForExperiment(btn, FALSE)
    /\ UNCHANGED <<en_line, dir_line, step_line, current_plate, sm, mc, gt, cpc, led_probe, csv_opens,
                   hist, led, camera_on, gui, wkind>>

RunnerStep ==
    \/ RunnerStart
    \/ RunnerHomed
    \/ RunnerCameraStart
    \/ RunnerWhile
    \/ RunnerGotoDone
    \/ RunnerSlot
    \/ RunnerSettle
    \/ RunnerSettled
    \/ RunnerCapture
    \/ RunnerLedOff
    \/ RunnerAdvance
    \/ RunnerAdvanced
    \/ RunnerPost
    \/ RunnerCadence
    \/ RunnerFinally
    \/ RunnerEmit

(***************************************************************************)
(* The sequential caller of SpecLed: one thread that calls set_led() any   *)
(* number of times, from any state of the two LED lines, with led_request  *)
(* present or None.                                                        *)
(***************************************************************************)
\* the states of the two LED lines
LedStates == [green : BOOLEAN, ir : BOOLEAN]

\* present: led_request is not None; prior: the lines before the first call;
\* before: the lines before the last call; last, prev: the arguments of the
\* last call and of the one before it; calls: the calls made
ProbeOff == [present |-> TRUE, prior |-> LedOff, before |-> LedOff,
             last |-> <<>>, prev |-> <<>>, calls |-> 0]

\* the lines are in any state when the calls begin
LedLinesAny ==
    /\ \E p \in LedStates, present \in BOOLEAN :
         /\ led' = p
         /\ led_probe' = [ProbeOff EXCEPT !.present = present, !.prior = p,
                                          !.before = p]
    /\ UNCHANGED <<en_line, dir_line, step_line, current_plate, sm, mc, gt, abort,
                   cpc, hist, camera_on, gui, btn, wpc, wkind, run, expired,
                   csv_opens>>

\* set_led(on, mode): if not led_request: return; else the two lines are written
LedCall ==
    /\ led_probe.calls < MaxLedCalls
    /\ \E on \in BOOLEAN, mode \in {ILLUM_GREEN, ILLUM_IR} :
         /\ led' = IF led_probe.present THEN set_led(on, mode) ELSE led
         /\ led_probe' = [led_probe EXCEPT !.before = led, !.prev = led_probe.last,
                                           !.last = <<on, mode>>,
                                           !.calls = @ + 1]
    /\ UNCHANGED <<en_line, dir_line, step_line, current_plate, sm, mc, gt, abort,
                   cpc, hist, camera_on, gui, btn, wpc, wkind, run, expired,
                   csv_opens>>

\* a direction line requested the other way round
DirAtRequestReversed == "INACTIVE"

\* DIR_PIN: LineSettings(direction=OUTPUT, output_value=Value.ACTIVE), clockwise
DirAtRequest == "ACTIVE"

Init ==
    /\ led_probe = ProbeOff
    /\ csv_opens = TRUE
    /\ en_line = "INACTIVE"
    /\ dir_line = DirAtRequest
    /\ step_line = "INACTIVE"
    /\ current_plate = 0
    /\ sm = [t \in Threads |-> SmOff]
    /\ mc = [t \in Threads |-> McOff]
    /\ gt = [t \in Threads |-> GtOff]
    /\ abort = [t \in Threads |-> FALSE]
    /\ cpc = "idle"
    /\ hist = [homed |-> FALSE, estop |-> FALSE, cut |-> FALSE]
    /\ led = LedOff
    /\ camera_on = FALSE
    /\ gui = [live_view_active |-> FALSE, active_illum_mode |-> ILLUM_GREEN,
              homing_worker |-> 0, waiting |-> FALSE]
    /\ btn = ControlsForExperiment(
               [home |-> TRUE, advance |-> TRUE, experiment |-> TRUE,
                illum |-> TRUE, live |-> TRUE, end |-> TRUE], FALSE)
    /\ wpc = [t \in Threads |-> "none"]
    /\ wkind = [t \in Workers |-> "none"]
    /\ run = RunOff
    /\ expired = FALSE

NextMotor ==
    \/ CallerDriverEnable
    \/ CallerDriverDisable
    \/ CallerStepMotor
    \/ CallerHome
    \/ CallerAdvance
    \/ CallerGoto
    \/ CallerReturn
    \/ CallerAbortChanges
    \/ MotorStep(Caller)

SpecMotor == Init /\ [][NextMotor]_vars

NextLed ==
    \/ LedLinesAny
    \/ LedCall

SpecLed == Init /\ [][NextLed]_vars

Next ==
    \/ OnHomeClicked
    \/ ClickAdvance
    \/ ToggleLiveView
    \/ ToggleIlluminationMode
    \/ StartExperiment
    \/ EndExperiment
    \/ EndExperimentWaited
    \/ DurationElapses
    \/ RunnerStep
    \/ MotorStep(Runner)
    \/ \E k \in 1..MaxWorkers :
         \/ HomingWorkerDone(k)
         \/ MotorWorkerRun(k)
         \/ MotorWorkerDone(k)
         \/ MotorStep(Worker(k))

Spec == Init /\ [][Next]_vars

\* home()'s coarse loop leaves by its wall-clock timeout: time.time() -
\* start_time grows with every burst
HomeTimesOut(t) == HomeCoarseAfter(t) /\ mc'[t].pc = "ret"

\* the run's thread is scheduled, the 60 s homing timeout is reached if the
\* coarse seek goes on, and the wall clock reaches end_time
RunFairness ==
    /\ WF_vars(RunnerStep)
    /\ WF_vars(MotorStep(Runner))
    /\ SF_vars(HomeTimesOut(Runner))
    /\ WF_vars(DurationElapses)

SpecFair == Spec /\ RunFairness

\* the steps of motor_control code a thread takes when only home() and the
\* run move the carousel: every goto_plate(1) of the run then finds PlateIndex
\* at 1, and its loop makes no advance() call
MotorStepAlone(t) ==
    \/ StepPoll(t)
    \/ StepAssert(t)
    \/ StepDeassert(t)
    \/ HomeCoarseTest(t)
    \/ HomeCoarseAfter(t)
    \/ HomeFineTest(t)
    \/ HomeFineAfter(t)
    \/ HomeDone(t)
    \/ AdvanceCommit(t)
    \/ AdvanceDriftTest(t)
    \/ AdvanceDriftAfter(t)
    \/ AdvanceDriftEnd(t)
    \/ GotoLoop(t)

\* the application with no standalone Advance: the experiment run, its start
\* and end, standalone homing and the illumination controls
NextRun ==
    \/ OnHomeClicked
    \/ ToggleLiveView
    \/ ToggleIlluminationMode
    \/ StartExperiment
    \/ EndExperiment
    \/ EndExperimentWaited
    \/ DurationElapses
    \/ RunnerStep
    \/ MotorStepAlone(Runner)
    \/ \E k \in 1..MaxWorkers :
         \/ HomingWorkerDone(k)
         \/ MotorStepAlone(Worker(k))

SpecRun == Init /\ [][NextRun]_vars /\ RunFairness

\* the run directory becomes unwritable, or writable again
DiskChanges ==
    /\ csv_opens' = ~csv_opens
    /\ UNCHANGED <<en_line, dir_line, step_line, current_plate, sm, mc, gt, abort,
                   cpc, hist, appvars, led_probe>>

\* the application of NextRun on a disk where metadata.csv may fail to open
NextCsv ==
    \/ NextRun
    \/ DiskChanges

SpecCsv == Init /\ [][NextCsv]_vars

(***************************************************************************)
(* Properties of the motion controller, checked under SpecMotor            *)
(***************************************************************************)
\* the cyclic successor of a slot, as the carousel is built
CyclicSuccessor(p) == IF p = NumPlates THEN 1 ELSE p + 1

\* an advance() of thread t whose 60-degree burst completed has returned
AdvanceReturned(t) ==
    /\ mc[t].op = "advance"
    /\ mc[t].pc = "ret"
    /\ mc[t].burst_ok

\* C1: on a homed carousel, an advance() that completed its step burst was
\* entered at a slot in 1..6, moved PlateIndex to that slot's cyclic successor
\* (6 wraps to 1) and returns it: no slot is skipped or repeated.
C1_AdvanceIsCyclicSuccessor ==
    (hist.homed /\ AdvanceReturned(Caller)) =>
        /\ mc[Caller].entry \in 1..NumPlates
        /\ mc[Caller].landed = CyclicSuccessor(mc[Caller].entry)
        /\ current_plate = CyclicSuccessor(mc[Caller].entry)
        /\ mc[Caller].result = current_plate

\* C1 witness: a completed advance() on a homed carousel wrapped from 6 to 1
C1_Witness ==
    /\ hist.homed
    /\ AdvanceReturned(Caller)
    /\ mc[Caller].entry = NumPlates
    /\ current_plate = 1

\* C3: while the burst of an advance() is in progress PlateIndex is still the
\* value at the call; once PlateIndex has been updated the burst had asserted
\* all steps_per_60_deg pulses; an advance() whose burst returned aborted
\* returns with PlateIndex unchanged and no drift correction.
C3_AdvanceAtomic ==
    mc[Caller].op = "advance" =>
        /\ mc[Caller].pc = "a_burst" => current_plate = mc[Caller].entry
        /\ (mc[Caller].pc # "a_burst" /\ mc[Caller].burst_ok) =>
               /\ mc[Caller].burst_pulses = steps_per_60_deg
               /\ mc[Caller].landed # 0
        /\ (mc[Caller].pc # "a_burst" /\ ~mc[Caller].burst_ok) =>
               /\ mc[Caller].pc = "ret"
               /\ current_plate = mc[Caller].entry
               /\ ~mc[Caller].drift

\* C3 witness: an advance() has updated PlateIndex, after a full burst
C3_Witness ==
    /\ AdvanceReturned(Caller)
    /\ mc[Caller].burst_pulses = steps_per_60_deg
    /\ mc[Caller].entry = 2
    /\ current_plate = 3

\* a goto_plate(target) with target in 1..6, called at a slot in 1..6
GotoInRange(t) ==
    /\ gt[t].pc # "off"
    /\ gt[t].entry \in 1..NumPlates
    /\ gt[t].target \in 1..NumPlates

\* C8: goto_plate(target) from any slot 1..6 to any target 1..6 makes at most 6
\* advance() calls (each one spends one unit of its budget of 6), and when it
\* returns PlateIndex is the target and is what it returns.
C8_GotoReachesTarget ==
    GotoInRange(Caller) =>
        /\ gt[Caller].advances <= 6
        /\ gt[Caller].pc = "loop" => gt[Caller].advances + gt[Caller].max_steps = 6
        /\ gt[Caller].pc = "ret" =>
               /\ current_plate = gt[Caller].target
               /\ gt[Caller].result = gt[Caller].target
               /\ gt[Caller].advances =
                      (gt[Caller].target - gt[Caller].entry + NumPlates) % NumPlates

\* C8 witness: a goto_plate that needed five advances (slot 2 to slot 1) returned
C8_Witness ==
    /\ GotoInRange(Caller)
    /\ gt[Caller].pc = "ret"
    /\ gt[Caller].entry = 2
    /\ gt[Caller].target = 1
    /\ gt[Caller].advances = 5

\* the drift-correction block of advance(): its polling loop and the reset
DriftPcs == {"a_drift", "a_drift_step", "a_drift_end"}

\* C9: inside advance() the drift-correction loop is entered if and only if
\* the completed slot transition left PlateIndex = 1; after landing on 2..6 it
\* is never entered, and it is never entered without a completed transition.
C9_DriftIffLandedOnOne ==
    mc[Caller].op = "advance" =>
        /\ mc[Caller].pc \in DriftPcs => mc[Caller].landed = 1
        /\ mc[Caller].drift <=> mc[Caller].landed = 1
        /\ (mc[Caller].pc = "ret" /\ mc[Caller].landed \in 2..NumPlates) =>
               /\ ~mc[Caller].drift
               /\ mc[Caller].extra_steps = 0

\* C9 witness: the drift loop has stepped, after a transition that landed on 1
C9_Witness ==
    /\ mc[Caller].op = "advance"
    /\ mc[Caller].pc = "ret"
    /\ mc[Caller].drift
    /\ mc[Caller].landed = 1
    /\ mc[Caller].entry = NumPlates
    /\ mc[Caller].extra_steps > 0

\* a direct call of step_motor by the sequential caller
DirectStepMotor == cpc = "step_motor" /\ sm[Caller].pc # "off"

\* C10: step_motor polls should_abort before each pulse: no pulse is asserted
\* once a poll (a loop head of a call that was given a should_abort, at which it
\* answers true) has found it true, and the call then returns False having
\* asserted only the pulses before that poll (fewer than count); if no poll
\* finds it true the call returns True after exactly count pulses, each asserted
\* and then deasserted.
C10_StepMotorPollsBeforeEachPulse ==
    DirectStepMotor =>
        /\ (sm[Caller].pc \in {"high", "low"} /\ sm[Caller].abortable) =>
               ~sm[Caller].saw
        /\ sm[Caller].pc \in {"poll", "high"} =>
               /\ sm[Caller].pulses = sm[Caller].i
               /\ step_line = "INACTIVE"
        /\ sm[Caller].pc = "low" =>
               /\ sm[Caller].pulses = sm[Caller].i + 1
               /\ step_line = "ACTIVE"
        /\ sm[Caller].pc = "ret" =>
               /\ step_line = "INACTIVE"
               /\ sm[Caller].ok <=> ~(sm[Caller].abortable /\ sm[Caller].saw)
               /\ sm[Caller].ok => sm[Caller].pulses = sm[Caller].steps
               /\ ~sm[Caller].ok =>
                      /\ sm[Caller].abortable
                      /\ sm[Caller].pulses = sm[Caller].i
                      /\ sm[Caller].pulses < sm[Caller].steps

\* C10 witness: a call returned False after some but not all of its pulses
C10_Witness ==
    /\ DirectStepMotor
    /\ sm[Caller].pc = "ret"
    /\ ~sm[Caller].ok
    /\ sm[Caller].pulses > 0
    /\ sm[Caller].pulses < sm[Caller].steps

\* a home() of thread t has returned
HomeReturned(t) == mc[t].op = "home" /\ mc[t].pc = "ret"

\* C11: a home() whose coarse seek ran past the wall-clock timeout returns
\* None and leaves PlateIndex as it was at the call; so does every home() that
\* returns None.
C11_TimeoutReturnsNone ==
    HomeReturned(Caller) =>
        /\ mc[Caller].why = "timeout" => mc[Caller].result = 0
        /\ mc[Caller].result = 0 => current_plate = mc[Caller].entry

\* C11 witness: a home() called at slot 3 timed out and PlateIndex is still 3
C11_Witness ==
    /\ HomeReturned(Caller)
    /\ mc[Caller].why = "timeout"
    /\ mc[Caller].entry = 3
    /\ current_plate = 3

\* C12: a home() that was given a should_abort whose flag was set at some step
\* of its coarse or fine seek returns None and leaves PlateIndex as it was.
C12_AbortedHomeReturnsNone ==
    (HomeReturned(Caller) /\ mc[Caller].flagged) =>
        /\ mc[Caller].result = 0
        /\ current_plate = mc[Caller].entry

\* C13: the fine seek takes at most one step more than its cap, and a home()
\* whose fine seek ran past the cap without the optical index still returns
\* plate 1 with PlateIndex = 1.
C13_CapExceededStillHomes ==
    mc[Caller].op = "home" =>
        /\ mc[Caller].steps_after_hall <= HomeOpticalLimit + 1
        /\ (mc[Caller].pc = "ret" /\ mc[Caller].steps_after_hall > HomeOpticalLimit) =>
               /\ mc[Caller].result = 1
               /\ current_plate = 1
               /\ mc[Caller].why = "none"

\* C13 witness: a home() called on an unhomed carousel ran past the cap and
\* returned plate 1
C13_Witness ==
    /\ HomeReturned(Caller)
    /\ mc[Caller].steps_after_hall = HomeOpticalLimit + 1
    /\ mc[Caller].entry = 0
    /\ mc[Caller].result = 1
    /\ current_plate = 1

\* C24: the fine seek of home() asserts at most HomeOpticalLimit (2000)
\* single-step pulses.
C24_FineSeekPulseCap ==
    mc[Caller].op = "home" => mc[Caller].seek_pulses <= HomeOpticalLimit

\* C25: the drift correction of an advance() asserts at most DriftLimit (500)
\* single-step pulses, and its loop goes on only below that cap.
C25_DriftPulseCap ==
    mc[Caller].op = "advance" =>
        /\ mc[Caller].seek_pulses <= DriftLimit
        /\ mc[Caller].pc \in {"a_drift", "a_drift_step"} =>
               mc[Caller].extra_steps <= DriftLimit

\* the sequential caller is inside a motor_control motion function
InMotionCall == cpc \in {"step_motor", "home", "advance", "goto_plate"}

\* C28: the direction line is clockwise (ACTIVE) from initialisation on,
\* whatever operations are called, and no step taken inside step_motor(),
\* home(), advance() or goto_plate() changes the enable line: they write the
\* step line only.
C28_DirectionAndEnableFrame ==
    /\ [](dir_line = "ACTIVE")
    /\ [][InMotionCall => (en_line' = en_line /\ dir_line' = dir_line)]_vars

\* C28 witness: a goto_plate() that advanced has returned with the driver
\* disabled, as it was called, and the direction line clockwise
C28_Witness ==
    /\ cpc = "goto_plate"
    /\ gt[Caller].pc = "ret"
    /\ gt[Caller].advances >= 1
    /\ en_line = "ACTIVE"
    /\ dir_line = "ACTIVE"
    /\ step_line = "INACTIVE"

\* C37: a goto_plate() whose target is outside 1..6 has returned as soon as
\* it is called: it made no advance() call and no step_motor() call, asserted
\* no pulse, left PlateIndex as it was at the call, and returns that value.
C37_InvalidTargetRejected ==
    (cpc = "goto_plate" /\ gt[Caller].target \notin 1..NumPlates) =>
        /\ gt[Caller].pc = "ret"
        /\ gt[Caller].advances = 0
        /\ mc[Caller] = McOff
        /\ sm[Caller] = SmOff
        /\ step_line = "INACTIVE"
        /\ current_plate = gt[Caller].entry
        /\ gt[Caller].result = gt[Caller].entry

\* C37 witness: goto_plate(7) called at slot 3 has returned 3
C37_Witness ==
    /\ cpc = "goto_plate"
    /\ gt[Caller].target = NumPlates + 1
    /\ gt[Caller].pc = "ret"
    /\ gt[Caller].entry = 3
    /\ gt[Caller].result = 3
    /\ current_plate = 3

(***************************************************************************)
(* Properties of the running application, checked under Spec               *)
(***************************************************************************)
\* thread t has asserted STEP for a pulse of an advance()
AdvancePulse(t) == mc[t].op = "advance" /\ sm[t].pc = "low"

\* C2: a step burst issued on behalf of the running experiment polls the run's
\* abort flag before each pulse: the experiment thread never asserts STEP for a
\* pulse at whose loop head the run's abort flag was already set.
C2_RunBurstsPollAbort ==
    sm[Runner].pc = "low" => ~sm[Runner].saw

\* the order of the orchestrator's actions within one slot
SlotOrders ==
    { <<"on", "settle", c, "off", "advance">> : c \in {"capture", "skip"} }

\* a is a prefix of b
IsPrefix(a, b) == Len(a) <= Len(b) /\ \A j \in 1..Len(a) : a[j] = b[j]

\* the LED of the run's illumination mode is on
RunLedOn == IF run.mode = ILLUM_GREEN THEN led.green ELSE led.ir

C5_FinalizedBeforeFinished ==
    (wpc[Runner] = "r_emit" /\ run.selected # {}) => (run.stopped /\ run.dark)

\* C6: after an emergency stop and until a home() has succeeded, no thread
\* emits a step pulse of an advance() (goto_plate moves by advance() only).
C6_NoAdvancePulseAfterEstop ==
    hist.estop => \A t \in Threads : ~AdvancePulse(t)

\* C7: while no home() has ever succeeded, PlateIndex is not a slot 1..6 and no
\* thread emits a step pulse of an advance().
C7_NoAdvanceBeforeHomed ==
    ~hist.homed =>
        /\ current_plate \notin 1..NumPlates
        /\ \A t \in Threads : ~AdvancePulse(t)

\* the run's for loop was left by the abort test that follows the settle wait
CutAfterSettle == IsRunning(Runner) /\ run.cut = "settle"

\* C14: once the abort test after the settle wait of slot k has ended the
\* sweep, slot k has no capture, the orchestrator is in no motor call (no
\* advance follows), the run's abort flag is set, finalization has set the
\* illumination off and logged the run as aborted before the run-finished
\* event, and PlateIndex is k.
C14_AbortDuringSettle ==
    CutAfterSettle =>
        /\ run.events \in {<<"on", "settle">>, <<>>}
        /\ wpc[Runner] \in {"r_post", "r_while", "r_finally", "r_emit"}
        /\ mc[Runner] = McOff /\ gt[Runner] = GtOff /\ sm[Runner] = SmOff
        /\ abort[Runner]
        /\ wpc[Runner] = "r_emit" =>
               (run.dark /\ led = LedOff /\ run.report = "aborted")
        /\ current_plate = run.plate_idx

\* the selected slots among 1..k, in ascending order
SelectedUpTo(k) == SelectSeq([j \in 1..k |-> j], LAMBDA x : x \in run.selected)

\* the sweep of a cycle went through all six slots without an abort break
SweepDone == wpc[Runner] \in {"r_post", "r_cadence"} /\ run.cut = "none"

\* C15: within a cycle the orchestrator has called advance() once for each
\* slot it has finished and attempted one capture for each selected slot it
\* has reached, in slot order, and none for the other slots; a cycle whose
\* sweep was not cut by an abort ends with exactly 6 advance() calls and the
\* capture attempts of exactly the selected slots.
C15_AdvancesAndCapturesPerCycle ==
    /\ wpc[Runner] \in {"r_slot", "r_settle", "r_settled", "r_capture"} =>
           /\ run.advances = run.plate_idx - 1
           /\ run.shots = SelectedUpTo(run.plate_idx - 1)
    /\ wpc[Runner] \in {"r_ledoff", "r_advance"} =>
           /\ run.advances = run.plate_idx - 1
           /\ run.shots = SelectedUpTo(run.plate_idx)
    /\ wpc[Runner] = "r_advancing" =>
           /\ run.advances = run.plate_idx
           /\ run.shots = SelectedUpTo(run.plate_idx)
    /\ SweepDone =>
           /\ run.plate_idx = 6
           /\ run.advances = 6
           /\ run.shots = SelectedUpTo(6)

\* C15 witness: a sweep with slots 2 and 4 selected is complete, with six
\* advance() calls and the capture attempts of slots 2 and 4
C15_Witness ==
    /\ SweepDone
    /\ run.selected = {2, 4}
    /\ run.advances = 6
    /\ run.shots = <<2, 4>>

\* C16: a run planned for zero days never enters a cycle: it is in no
\* goto_plate() or advance(), has counted no cycle, made no capture attempt,
\* never set the illumination on (both LEDs stay off), and, unless aborted,
\* its finalization logs it as finished, not aborted.
C16_ZeroDurationRunsNoCycle ==
    (IsRunning(Runner) /\ run.selected # {} /\ run.days = 0) =>
        /\ wpc[Runner] \in {"r_start", "r_home", "r_camera", "r_while",
                             "r_finally", "r_emit"}
        /\ run.cycle_count = 0
        /\ run.advances = 0 /\ run.shots = <<>>
        /\ gt[Runner] = GtOff /\ mc[Runner].op # "advance"
        /\ ~run.lit /\ led = LedOff
        /\ (wpc[Runner] = "r_emit" /\ run.stopped /\ ~abort[Runner]) =>
               run.report = "finished"

\* C16 witness: a zero-day run homed, started the camera, and is about to emit
\* run-finished after a finalization that logged it as finished
C16_Witness ==
    /\ wpc[Runner] = "r_emit"
    /\ run.selected = {2, 4} /\ run.days = 0
    /\ run.cam_tried /\ run.stopped
    /\ run.report = "finished"
    /\ run.cycle_count = 0
    /\ current_plate = 1

\* the run is about to emit run-finished straight from the return that
\* follows a failed home() / a camera start that raised
HomingFailedExit ==
    wpc[Runner] = "r_emit" /\ run.selected # {} /\ run.plate = 0
CameraFailedExit ==
    wpc[Runner] = "r_emit" /\ run.cam_tried /\ ~run.stopped

\* C17: a run that ends on a failed home() or on a camera start that raised
\* has entered no cycle: it never set the illumination on, made no capture
\* attempt, called neither goto_plate() nor advance(); the camera start is
\* attempted only after a successful home(), so never after a failed one.
C17_EarlyFailureRunsNothing ==
    /\ (HomingFailedExit \/ CameraFailedExit) =>
           /\ run.cycle_count = 0
           /\ ~run.lit /\ led = LedOff
           /\ run.advances = 0 /\ run.shots = <<>>
           /\ gt[Runner] = GtOff /\ mc[Runner] = McOff /\ sm[Runner] = SmOff
    /\ HomingFailedExit => (~run.cam_tried /\ ~run.stopped)
    /\ (IsRunning(Runner) /\ run.cam_tried) => run.plate # 0

\* C17 witness: a run with plates selected is about to emit run-finished
\* after its home() timed out, the camera start not attempted
C17_Witness ==
    /\ HomingFailedExit
    /\ run.selected = {2, 4}
    /\ ~run.cam_tried
    /\ run.cycle_count = 0

\* the capture attempt of the slot in hand has failed
FailedCapture ==
    /\ IsRunning(Runner)
    /\ Len(run.events) >= 3
    /\ run.events[3] = "capture"
    /\ ~run.saved

\* C18: after a failed capture the slot goes on as after a saved one: next is
\* the LED off, then advance() with both LEDs off; and a run in which a capture
\* has failed keeps sweeping: in every later slot and cycle its advance() calls
\* and capture attempts are those of the slots reached.
C18_FailedCaptureGoesOn ==
    /\ FailedCapture =>
           /\ wpc[Runner] \in {"r_ledoff", "r_advance", "r_advancing"}
              \/ (run.plate_idx = 6 /\ wpc[Runner] \in {"r_post", "r_cadence", "r_while"})
           /\ wpc[Runner] \in {"r_advance", "r_advancing"} =>
                  (led = LedOff /\ run.events[4] = "off")
           /\ wpc[Runner] = "r_advancing" => mc[Runner].op = "advance"
    /\ (run.had_fail /\ wpc[Runner] \in {"r_slot", "r_settle", "r_settled", "r_capture"}) =>
           /\ run.advances = run.plate_idx - 1
           /\ run.shots = SelectedUpTo(run.plate_idx - 1)
    /\ (run.had_fail /\ SweepDone) =>
           (run.advances = 6 /\ run.shots = SelectedUpTo(6))

\* C18 witness: in the second cycle of a run in which a capture has failed,
\* slot 4 has been captured and saved and its advance() is in progress
C18_Witness ==
    /\ run.had_fail
    /\ run.cycle_count = 2
    /\ wpc[Runner] = "r_advancing"
    /\ run.plate_idx = 4
    /\ run.saved
    /\ run.shots = <<2, 4>>
    /\ led = LedOff

\* C19: whenever the per-slot loop of a cycle starts (the orchestrator is at
\* the top of slot 1), PlateIndex is 1.
C19_CycleBeginsAtSlotOne ==
    (wpc[Runner] = "r_slot" /\ run.plate_idx = 1) => current_plate = 1

\* the threads that own an abort flag: the experiment run and the workers
AbortOwners == {Runner} \cup Workers

\* C20: the abort flag of a run or of a worker is false when its operation
\* starts, and once set it stays set in every step, of any thread, for as
\* long as that operation is running.
C20_AbortIsMonotonic ==
    [][\A t \in AbortOwners :
         /\ (~IsRunning(t) /\ IsRunning(t)') => ~abort'[t]
         /\ (IsRunning(t) /\ abort[t] /\ IsRunning(t)') => abort'[t]]_vars

\* C20 witness: the homing worker's flag, set by stop_homing(), is still set
\* when its home() has returned None on seeing it
C20_Witness ==
    \E w \in Workers :
        /\ wkind[w] = "homing"
        /\ abort[w]
        /\ mc[w].pc = "ret"
        /\ mc[w].result = 0

\* C21: from an emergency stop until the next driver_enable() call the enable
\* line is in the disabled state, whatever the homing worker is doing and
\* whether or not it has seen the abort flag: no step of home() or
\* step_motor() writes the line.
C21_EstopKeepsDriverDisabled ==
    hist.cut => en_line = "ACTIVE"

\* C21 witness: after the emergency stop the homing worker, which has not
\* yet polled the flag, is asserting STEP with the driver disabled
C21_Witness ==
    \E w \in Workers :
        /\ hist.cut
        /\ en_line = "ACTIVE"
        /\ wkind[w] = "homing"
        /\ abort[w]
        /\ sm[w].pc = "low"

\* C29: when a standalone homing finishes (its home() has returned and
\* on_homing_finished is about to announce the driver state), the enable line
\* is in the disabled state if the result is None and in the enabled state if
\* the result is a plate index.
C29_AnnouncedDriverStateIsActual ==
    \A w \in Workers :
        (wkind[w] = "homing" /\ mc[w].pc = "ret")
            => IF mc[w].result = 0
               THEN en_line = "ACTIVE"
               ELSE en_line = "INACTIVE"

\* thread t is inside a motor_control motion operation: home(), advance(),
\* goto_plate(), or a step_motor() burst of one of them
InMotion(t) == mc[t].pc # "off" \/ gt[t].pc # "off" \/ sm[t].pc # "off"

\* C30: at no time are two of the worker threads (the experiment run, a
\* homing worker, a motor worker) inside a motor_control motion operation
\* together, whatever Home, Advance and experiment-start requests were made.
C30_OneMotionAtATime ==
    \A t, u \in AbortOwners : (InMotion(t) /\ InMotion(u)) => t = u

\* C31: whenever the orchestrator attempts a capture for loop slot k,
\* PlateIndex is k, and the slot index it emits after an advance() has
\* returned (1 after slot 6, else k + 1) is PlateIndex at that moment.
C31_LoopSlotIsPlateIndex ==
    /\ (wpc[Runner] = "r_capture" /\ InSelectedPlates(run.plate_idx))
           => current_plate = run.plate_idx
    /\ (wpc[Runner] = "r_advancing" /\ mc[Runner].pc = "ret")
           => current_plate = CyclicSuccessor(run.plate_idx)

\* with no standalone Advance no goto_plate() is ever inside an advance() of
\* its own: the step of goto_plate() that NextRun leaves out is never enabled
GotoNeverAdvances == \A t \in Threads : gt[t].pc # "adv"

\* C32: every started run emits finished_signal: its thread ends by the
\* emission and in no other way, on every path (empty selection, homing
\* failure, camera-start failure, completion, abort); the emission is the
\* last thing run() does, so the thread takes no further step, and emits no
\* other event, before a new run is started; and under fair scheduling every
\* started run does reach the emission.
C32_FinishedExactlyOnce ==
    /\ [][(IsRunning(Runner) /\ ~IsRunning(Runner)') => wpc[Runner] = "r_emit"]_vars
    /\ [][wpc[Runner] = "r_emit" => wpc'[Runner] \in {"r_emit", "none"}]_vars
    /\ [][(~IsRunning(Runner) /\ IsRunning(Runner)') => wpc'[Runner] = "r_start"]_vars
    /\ (wpc[Runner] = "r_start" ~> wpc[Runner] = "r_emit")
    /\ (wpc[Runner] = "r_emit" ~> ~IsRunning(Runner))

\* C32 witness: a run that went through its cycles to the end of its duration
\* is about to emit finished_signal from the finally block
C32_Witness ==
    /\ wpc[Runner] = "r_emit"
    /\ run.report = "finished"
    /\ run.sweeps = MaxCycles
    /\ ~abort[Runner]

\* C33: under fair scheduling of the run's thread, a running experiment
\* whose abort flag has been set ends by emitting finished_signal, in
\* whichever phase the flag was set.
C33_AbortLeadsToFinished ==
    (IsRunning(Runner) /\ abort[Runner]) ~> ~IsRunning(Runner)

\* C33 witness: an abort that arrived before the first cycle, while the run
\* was homing or starting the camera, has taken the run through its finally
\* block to the emission
C33_Witness ==
    /\ wpc[Runner] = "r_emit"
    /\ abort[Runner]
    /\ run.report = "aborted"
    /\ run.cycle_count = 0
    /\ run.plate = 1

\* the positions of run() inside one cycle, from goto_plate(1) to the
\* post-cycle test
SweepPcs == {"r_goto", "r_slot", "r_settle", "r_settled", "r_capture",
             "r_ledoff", "r_advance", "r_advancing", "r_post"}

\* C34: the end time is looked at only by the while condition.  Once a cycle
\* has started, and as long as the abort flag is clear, the run stays in the
\* cycle whether or not the end time has passed: it leaves the slot loop
\* before slot 6 only by an abort break (or by an exception of the capture),
\* after slot 6 it enters the cadence wait, and that wait is never cut short
\* by the end time.
C34_DurationTestedAtCycleStart ==
    /\ []((wpc[Runner] = "r_post" /\ run.cut = "none") =>
            (run.plate_idx = 6 /\ run.advances = 6))
    /\ []((IsRunning(Runner) /\ run.cut # "none") => abort[Runner])
    /\ []((wpc[Runner] = "r_while" /\ run.cycle_count > 0 /\ ~abort[Runner]) =>
            run.woke = 0)
    /\ [][(wpc[Runner] \in SweepPcs /\ ~abort[Runner]) =>
            \/ wpc'[Runner] \in SweepPcs \cup {"r_cadence"}
            \/ wpc[Runner] = "r_capture" /\ wpc'[Runner] = "r_finally"]_vars

\* C34 witness: the end time passed during the first cycle, and the run,
\* not aborted, has handled all six slots and is in its cadence wait
C34_Witness ==
    /\ expired
    /\ ~abort[Runner]
    /\ wpc[Runner] = "r_cadence"
    /\ run.cycle_count = 1
    /\ run.shots = <<2, 4>>
    /\ run.advances = 6

\* what the slot in hand has to show for its capture: one entry with the
\* cycle counter and the slot if save_image() returned True, else nothing
OnePerSavedImage ==
    IF run.saved THEN <<<<run.cycle_count, run.plate_idx>>>> ELSE <<>>

\* C35: for the slot in hand the CSV rows written and the image-saved events
\* emitted are exactly one each, with the current cycle counter and the slot,
\* if its capture succeeded, and none if the capture failed, the slot is not
\* selected, or its settle wait was aborted.
C35_OneRecordPerSavedImage ==
    /\ run.rec = OnePerSavedImage
    /\ run.img = OnePerSavedImage

\* C36: a run whose normalized plate selection is empty is only ever at its
\* start or at the emission of finished_signal, with no motor_control call of
\* its own in progress, and no step it takes changes the enable line, the
\* step line, PlateIndex, the illumination or the camera.
C36_EmptySelectionDoesNothing ==
    /\ []((IsRunning(Runner) /\ run.selected = {}) =>
            /\ wpc[Runner] \in {"r_start", "r_emit"}
            /\ ~InMotion(Runner)
            /\ ~run.lit
            /\ ~run.cam_tried)
    /\ [][(IsRunning(Runner) /\ run.selected = {} /\ wpc'[Runner] # wpc[Runner]) =>
            UNCHANGED <<en_line, dir_line, step_line, current_plate, led,
                        camera_on, hist>>]_vars

\* C36 witness: after an emergency stop a run with nothing selected is about
\* to emit finished_signal, the driver still disabled
C36_Witness ==
    /\ wpc[Runner] = "r_emit"
    /\ run.selected = {}
    /\ hist.cut
    /\ en_line = "ACTIVE"
    /\ ~camera_on
    /\ led = LedOff

RunPlan == <<run.selected, run.days, run.mode>>

OffTwice ==
    /\ led_probe.calls >= 2
    /\ led_probe.last = led_probe.prev
    /\ led_probe.last[1] = FALSE

\* C22: after set_led(False, mode) called twice in a row the two LED lines
\* are as the first of the two calls left them, for either mode, from any
\* state of the lines, with led_request present or not.
C22_LedOffIdempotent ==
    OffTwice => led = led_probe.before

\* C22 witness: from both lines on, set_led(False, Infrared) was called
\* twice and both lines are off
C22_Witness ==
    /\ OffTwice
    /\ led_probe.calls = 2
    /\ led_probe.present
    /\ led_probe.prior = [green |-> TRUE, ir |-> TRUE]
    /\ led_probe.last = <<FALSE, ILLUM_IR>>
    /\ led = LedOff

\* the orchestrator is inside a cycle whose sweep is not complete
InCycle ==
    wpc[Runner] \in {"r_goto", "r_slot", "r_settle", "r_settled", "r_capture",
                     "r_ledoff", "r_advance", "r_advancing"}

\* C23 as claimed: the cycle counter always equals the number of completed
\* full sweeps of all 6 slots.
C23_CycleCountIsCompletedSweeps ==
    IsRunning(Runner) => run.cycle_count = run.sweeps

\* C23 as amended: the cycle counter never decreases and changes only by the
\* one increment at the entry of a cycle, before that cycle's sweep: inside a
\* cycle it is one more than the number of completed sweeps, a sweep cut short
\* by an abort stays counted, and it equals the number of completed sweeps
\* only once the sweep in hand is complete.
C23_CycleCountIsCyclesEntered ==
    /\ [](IsRunning(Runner) =>
            /\ InCycle => run.cycle_count = run.sweeps + 1
            /\ run.cut # "none" => run.cycle_count = run.sweeps + 1
            /\ SweepDone => run.cycle_count = run.sweeps
            /\ run.cycle_count \in {run.sweeps, run.sweeps + 1})
    /\ [][(IsRunning(Runner) /\ IsRunning(Runner)') =>
            /\ run'.cycle_count >= run.cycle_count
            /\ (wpc[Runner] = "r_while" /\ wpc'[Runner] = "r_goto") =>
                   run'.cycle_count = run.cycle_count + 1
            /\ run'.cycle_count # run.cycle_count =>
                   (wpc[Runner] = "r_while" /\ wpc'[Runner] = "r_goto")]_vars

\* C23 witness: the second cycle's sweep was cut short by an abort after one
\* completed sweep, and the counter is 2
C23_Witness ==
    /\ wpc[Runner] = "r_emit"
    /\ run.cut = "settle"
    /\ run.sweeps = 1
    /\ run.cycle_count = 2

\* the orchestrator is in a settle wait or a cadence wait
InWait == wpc[Runner] \in {"r_settle", "r_cadence"}

\* the experiment thread takes a step
RunnerMoves == run' # run \/ wpc'[Runner] # wpc[Runner]

\* C26: a settle or cadence wait returns with short sleeps left only if the
\* abort flag is set, and the first step the waiting thread takes with the
\* flag set is the return from the wait: it begins no further short sleep,
\* whether the flag was set before the wait or during it.
C26_WaitsPollAbort ==
    /\ []((IsRunning(Runner) /\ run.woke > 0) => abort[Runner])
    /\ [][(InWait /\ abort[Runner] /\ RunnerMoves) =>
            /\ wpc'[Runner] \notin {"r_settle", "r_cadence"}
            /\ run'.ticks = 0
            /\ run'.woke = run.ticks]_vars

\* C26 witness: an abort set after the first short sleep of a settle wait
\* made the wait return with the rest of its sleeps left
C26_Witness ==
    /\ wpc[Runner] = "r_settled"
    /\ abort[Runner]
    /\ run.woke = SettleTicks - 1
    /\ run.woke > 0

\* C27: the orchestrator is in the cadence wait only after a sweep that no
\* abort break cut, with slot 6 handled up to its advance(), and it enters the
\* wait only with the abort flag clear; after a sweep cut by an abort break,
\* at any slot, it is in no cadence wait and in no further cycle.
C27_CadenceOnlyAfterFullSweep ==
    /\ [](wpc[Runner] = "r_cadence" =>
            /\ run.cut = "none"
            /\ run.plate_idx = 6
            /\ run.advances = 6
            /\ run.events \in SlotOrders
            /\ mc[Runner] = McOff)
    /\ [](run.cut # "none" =>
            wpc[Runner] \in {"r_post", "r_while", "r_finally", "r_emit"})
    /\ [][(wpc[Runner] # "r_cadence" /\ wpc'[Runner] = "r_cadence") =>
            ~abort[Runner]]_vars

\* C27 witness: the first sweep was cut by the abort break after the settle
\* wait of slot 6, and the run is about to finish without a cadence wait
C27_Witness ==
    /\ wpc[Runner] = "r_emit"
    /\ run.cut = "settle"
    /\ run.plate_idx = 6
    /\ run.cycle_count = 1
    /\ run.advances = 5

====
